---- MODULE Spec2Model ----
(***************************************************************************)
(* A model of hypebot's core (src/hypebot/hypecore.py):                    *)
(*   - RequestTracker: the per-user confirmation workflow, one Lock,       *)
(*     called from several threads;                                        *)
(*   - Core.Reply: the outbound message path (a pure function of its       *)
(*     arguments, ending in interface.SendMessage calls);                  *)
(*   - Core.ReloadData: the reload sweep gated by runner.IsIdle().         *)
(* Three specifications share the module: Spec (the tracker), ReplySpec    *)
(* (Reply applied to bounded inputs) and ReloadSpec (ReloadData).          *)
(***************************************************************************)
EXTENDS Integers, Sequences, FiniteSets, TLC

VARIABLES
  clock,                  \* time.time(), in seconds
  pending_requests,       \* RequestTracker._pending_requests: user -> dict object
  pending_requests_lock,  \* RequestTracker._pending_requests_lock: its holder
  dicts,                  \* the request_details objects (the tracker stores references)
  frame,                  \* each thread's tracker call: position and locals
  invocations,            \* per user: action invocations of the request now stored
  rcall,                  \* Reply: the arguments of the last call
  rsent,                  \* Reply: the interface.SendMessage calls it made, in order
  rlogged,                \* Reply: the logging.log records it emitted
  runner,                 \* AsyncRunner: task id -> its state
  rframe,                 \* each thread's ReloadData call: position and locals
  attrs,                  \* Core.__dict__: attribute name -> object
  reloadable              \* the objects that have a ReloadData attribute

vars == <<clock, pending_requests, pending_requests_lock, dicts, frame,
          invocations, rcall, rsent, rlogged, runner, rframe, attrs, reloadable>>

trackerVars == <<clock, pending_requests, pending_requests_lock, dicts, frame,
                 invocations>>
replyVars == <<rcall, rsent, rlogged>>
reloadVars == <<runner, rframe, attrs, reloadable>>

-----------------------------------------------------------------------------
(* Bounds of the model. *)

TickSec == 30          \* the clock advances in steps of this many seconds
MaxClock == 60         \* the clock stops here
MaxInvocations == 2    \* action invocations counted per stored request

(* RequestTracker._REQUEST_TIMEOUT_SEC *)
REQUEST_TIMEOUT_SEC == 60

Threads == {"t1", "t2"}
Users == {"alice", "bob"}
Dicts == {"d1", "d2"}              \* request_details objects a caller may pass
NoUser == "no_user"
NoDict == "no_dict"
NoFn == "None"
NoThread == "unlocked"
NoTime == -1
NoText == "no_text"

(* Reply texts of the tracker. *)
ConfirmPrior == "Confirm prior request before submitting another."
ConfirmSummary == "Confirm %s?"
Cancelling == "Cancelling request."
TooLong == "You took too long to confirm, try again."
Accepted == "Confirmation accepted."
ActionText == "request_details['action_text']"

(* The replies a user may type, as sequences of characters. *)
UserMsgs == { <<"Y", "e", "s">>, <<"n", "o">> }

(* The (request_details, action_fn, parse_fn) triples callers pass to
   RequestConfirmation, for any user: one with the default parse predicate,
   one with a predicate of the caller's. The same mapping may be passed again,
   for the same or for another user. *)
RequestArgs ==
  { [details |-> "d1", action_fn |-> "action_a", parse_fn |-> "None"],
    [details |-> "d2", action_fn |-> "action_b", parse_fn |-> "parse_fn"] }

-----------------------------------------------------------------------------
(* RequestTracker *)

(* str.lower() on the characters the model uses. *)
Lower(c) == IF c = "Y" THEN "y" ELSE IF c = "N" THEN "n" ELSE c

(* parse_fn = lambda x: x.lower().startswith('y') *)
DefaultParse(x) == Len(x) > 0 /\ Lower(x[1]) = "y"

(* request_details.get('action_text', 'Confirmation accepted.'): whether the
   caller's mapping carries an 'action_text' key is the caller's choice. *)
HasActionText(d) == d = "d1"

(* the generic acknowledgement whatever the mapping carries *)
AckTextGeneric(d) == Accepted

AckText(d) == IF HasActionText(d) THEN ActionText ELSE Accepted

(* the comparison turned around: a request counts as live once it is old *)
PriorIsLiveInverted(now, timestamp) == now - timestamp > REQUEST_TIMEOUT_SEC

(* now - previous_request['timestamp'] < self._REQUEST_TIMEOUT_SEC *)
PriorIsLive(now, timestamp) == now - timestamp < REQUEST_TIMEOUT_SEC

(* the comparison made strict: a request is late only after the timeout *)
TookTooLongStrict(now, timestamp) == now - timestamp > REQUEST_TIMEOUT_SEC

(* now - request_details['timestamp'] >= self._REQUEST_TIMEOUT_SEC *)
TookTooLong(now, timestamp) == now - timestamp >= REQUEST_TIMEOUT_SEC

IdleFrame ==
  [pc |-> "idle", user |-> NoUser, now |-> 0, details |-> NoDict,
   action_fn |-> NoFn, parse_fn |-> NoFn, user_msg |-> <<>>,
   reply |-> NoText, outcome |-> "none", nested |-> FALSE]

TrackerInit ==
  /\ clock = 0
  /\ pending_requests = [u \in Users |-> NoDict]
  /\ pending_requests_lock = NoThread
  /\ dicts = [d \in Dicts |-> [timestamp |-> NoTime, action |-> NoFn, parse |-> NoFn]]
  /\ frame = [t \in Threads |-> IdleFrame]
  /\ invocations = [u \in Users |-> 0]

(* a lock that lets every acquire() through *)
LockIsFreeAlways == TRUE

(* threading.Lock is not re-entrant: acquire() goes through only while no
   thread, the caller included, holds the lock. *)
LockIsFree == pending_requests_lock = NoThread

(* membership that also looks at the age of the request *)
UserInLivePendingRequests(user) ==
  /\ pending_requests[user] # NoDict
  /\ clock - dicts[pending_requests[user]].timestamp < REQUEST_TIMEOUT_SEC

(* user in self._pending_requests *)
UserInPendingRequests(user) == pending_requests[user] # NoDict

(* time passes *)
Tick ==
  /\ clock + TickSec <= MaxClock
  /\ clock' = clock + TickSec
  /\ UNCHANGED <<pending_requests, pending_requests_lock, dicts, frame, invocations>>

(* HasPendingRequest(user): the call, up to the lock. *)
HasPendingRequestCall(t, user) ==
  /\ frame[t].pc = "idle"
  /\ frame' = [frame EXCEPT ![t] = [IdleFrame EXCEPT !.pc = "hp_lock", !.user = user]]
  /\ UNCHANGED <<clock, pending_requests, pending_requests_lock, dicts, invocations>>

(* with self._pending_requests_lock: return user in self._pending_requests *)
HasPendingRequest(t) ==
  /\ frame[t].pc = "hp_lock"
  /\ LockIsFree
  /\ frame' = [frame EXCEPT ![t].pc = "hp_ret",
                            ![t].outcome = IF UserInPendingRequests(frame[t].user)
                                             THEN "true" ELSE "false"]
  /\ UNCHANGED <<clock, pending_requests, pending_requests_lock, dicts, invocations>>

(* the caller of HasPendingRequest takes the result: the thread's own code,
   or the action callback that made the call, which then goes on *)
HasPendingRequestReturn(t) ==
  /\ frame[t].pc = "hp_ret"
  /\ frame' = IF frame[t].nested
                THEN [frame EXCEPT ![t].pc = "rr_action", ![t].outcome = "none",
                                   ![t].nested = FALSE]
                ELSE [frame EXCEPT ![t] = IdleFrame]
  /\ UNCHANGED <<clock, pending_requests, pending_requests_lock, dicts, invocations>>

(* RequestConfirmation(user, summary, request_details, action_fn, parse_fn):
   now = time.time(), taken before the lock. *)
RequestConfirmationCall(t, user, details, action_fn, parse_fn) ==
  /\ frame[t].pc = "idle"
  /\ frame' = [frame EXCEPT ![t] =
       [IdleFrame EXCEPT !.pc = "rc_lock", !.user = user, !.now = clock,
          !.details = details, !.action_fn = action_fn, !.parse_fn = parse_fn]]
  /\ UNCHANGED <<clock, pending_requests, pending_requests_lock, dicts, invocations>>

(* request_details['timestamp'] = now; ['action'] = action_fn;
   ['parse'] = parse_fn or the default predicate *)
Bookkeeping(now, action_fn, parse_fn) ==
  [timestamp |-> now,
   action |-> action_fn,
   parse |-> IF parse_fn = NoFn THEN "default_parse" ELSE parse_fn]

(* The lock is taken and the previous request looked up: a live one is kept and
   the call goes on to the 'Confirm prior request' reply; otherwise the old
   entry is deleted, the bookkeeping fields are written into the caller's
   mapping, the mapping is stored and the call goes on to the prompt, having
   replaced an entry (the del of l.122 ran) or stored a first one. *)
RequestConfirmationLocked(t) ==
  LET f == frame[t]
      previous_request == pending_requests[f.user]
  IN
  /\ f.pc = "rc_lock"
  /\ LockIsFree
  /\ pending_requests_lock' = t
  /\ IF previous_request # NoDict /\ PriorIsLive(f.now, dicts[previous_request].timestamp)
       THEN /\ frame' = [frame EXCEPT ![t] =
                 [IdleFrame EXCEPT !.pc = "rc_reply_prior", !.user = f.user,
                    !.reply = ConfirmPrior]]
            /\ UNCHANGED <<pending_requests, dicts, invocations>>
       ELSE /\ dicts' = [dicts EXCEPT ![f.details] =
                 Bookkeeping(f.now, f.action_fn, f.parse_fn)]
            /\ pending_requests' = [pending_requests EXCEPT ![f.user] = f.details]
            /\ invocations' = [invocations EXCEPT ![f.user] = 0]
            /\ frame' = [frame EXCEPT ![t] =
                 [IdleFrame EXCEPT !.pc = "rc_reply_confirm", !.user = f.user,
                    !.reply = ConfirmSummary,
                    !.outcome = IF previous_request # NoDict
                                  THEN "replaced" ELSE "stored"]]
  /\ UNCHANGED clock

(* self._reply_fn(user, ...) inside the with block: it returns or raises, and
   either way the with block then releases the lock and the call is over. *)
RequestConfirmationReply(t) ==
  /\ frame[t].pc \in {"rc_reply_prior", "rc_reply_confirm"}
  /\ frame' = [frame EXCEPT ![t] = IdleFrame]
  /\ pending_requests_lock' = NoThread
  /\ UNCHANGED <<clock, pending_requests, dicts, invocations>>

(* ResolveRequest(user, user_msg): now = time.time(), taken before the lock. *)
ResolveRequestCall(t, user, user_msg) ==
  /\ frame[t].pc = "idle"
  /\ frame' = [frame EXCEPT ![t] =
       [IdleFrame EXCEPT !.pc = "rr_lock", !.user = user, !.now = clock,
          !.user_msg = user_msg]]
  /\ UNCHANGED <<clock, pending_requests, pending_requests_lock, dicts, invocations>>

(* The results request_details['parse'](user_msg) can have: the default
   predicate is computed; a caller's predicate returns either value or raises. *)
ParseResults(parse, user_msg) ==
  IF parse = "default_parse"
    THEN {IF DefaultParse(user_msg) THEN "true" ELSE "false"}
    ELSE {"true", "false", "raise"}

(* if not parse(user_msg): ... elif now - timestamp >= timeout: ... else: ...
   The branch is named by the reply it sends. *)
ResolveBranch(parsed, now, timestamp) ==
  IF parsed = "false" THEN "rr_reply_cancel"
  ELSE IF TookTooLong(now, timestamp) THEN "rr_reply_late"
  ELSE "rr_reply_ack"

ResolveText(branch, details) ==
  IF branch = "rr_reply_cancel" THEN Cancelling
  ELSE IF branch = "rr_reply_late" THEN TooLong
  ELSE AckText(details)

(* an exception that leaves the with block without releasing the lock *)
RaiseHoldingLock(t) ==
  /\ frame' = [frame EXCEPT ![t] = IdleFrame]
  /\ UNCHANGED <<pending_requests, pending_requests_lock, invocations>>

(* What an exception leaves behind: the with block releases the lock and the
   statements after the raising call are not executed. *)
Raise(t) ==
  /\ frame' = [frame EXCEPT ![t] = IdleFrame]
  /\ pending_requests_lock' = NoThread
  /\ UNCHANGED <<pending_requests, invocations>>

(* The lock is taken; request_details = self._pending_requests.get(user), and
   without one the call returns; otherwise the parse predicate is called and
   the branch taken. *)
ResolveRequestLocked(t) ==
  LET f == frame[t]
      request_details == pending_requests[f.user]
  IN
  /\ f.pc = "rr_lock"
  /\ LockIsFree
  /\ IF request_details = NoDict
       THEN /\ frame' = [frame EXCEPT ![t] = IdleFrame]
            /\ UNCHANGED pending_requests_lock
       ELSE \E parsed \in ParseResults(dicts[request_details].parse, f.user_msg) :
              IF parsed = "raise"
                THEN /\ frame' = [frame EXCEPT ![t] = IdleFrame]
                     /\ UNCHANGED pending_requests_lock
                ELSE LET branch == ResolveBranch(parsed, f.now, dicts[request_details].timestamp) IN
                     /\ frame' = [frame EXCEPT ![t] =
                          [IdleFrame EXCEPT !.pc = branch, !.user = f.user,
                             !.details = request_details,
                             !.reply = ResolveText(branch, request_details)]]
                     /\ pending_requests_lock' = t
  /\ UNCHANGED <<clock, pending_requests, dicts, invocations>>

(* del self._pending_requests[user], the last statement of the with block *)
DeleteRequest(t) ==
  /\ pending_requests' = [pending_requests EXCEPT ![frame[t].user] = NoDict]
  /\ invocations' = [invocations EXCEPT ![frame[t].user] = 0]
  /\ frame' = [frame EXCEPT ![t] = IdleFrame]
  /\ pending_requests_lock' = NoThread

(* self._reply_fn(user, 'Cancelling request.') or (user, 'You took too long to
   confirm, try again.'), then the del and the end of the with block. *)
ResolveRequestReply(t) ==
  /\ frame[t].pc \in {"rr_reply_cancel", "rr_reply_late"}
  /\ \E ok \in BOOLEAN : IF ok THEN DeleteRequest(t) ELSE Raise(t)
  /\ UNCHANGED <<clock, dicts>>

(* self._reply_fn(user, request_details.get('action_text', ...)), then the call
   of request_details['action'](user, request_details) starts. *)
ResolveRequestAck(t) ==
  LET f == frame[t] IN
  /\ f.pc = "rr_reply_ack"
  /\ invocations[f.user] < MaxInvocations
  /\ \E ok \in BOOLEAN :
       IF ok
         THEN /\ frame' = [frame EXCEPT ![t].pc = "rr_action",
                                        ![t].action_fn = dicts[f.details].action]
              /\ invocations' = [invocations EXCEPT ![f.user] = @ + 1]
              /\ UNCHANGED <<pending_requests, pending_requests_lock>>
         ELSE Raise(t)
  /\ UNCHANGED <<clock, dicts>>

(* request_details['action'](user, request_details) returns or raises; after a
   return the del runs and the with block ends. *)
ResolveRequestAction(t) ==
  /\ frame[t].pc = "rr_action"
  /\ \E ok \in BOOLEAN : IF ok THEN DeleteRequest(t) ELSE Raise(t)
  /\ UNCHANGED <<clock, dicts>>

(* The action is the caller's code and may use the tracker it was registered
   with: here it calls HasPendingRequest(user), on the thread that is inside
   ResolveRequest's with block. *)
ActionCallsTracker(t) ==
  /\ frame[t].pc = "rr_action"
  /\ frame' = [frame EXCEPT ![t].pc = "hp_lock", ![t].nested = TRUE]
  /\ UNCHANGED <<clock, pending_requests, pending_requests_lock, dicts, invocations>>

-----------------------------------------------------------------------------
(* Core.Reply and OutputUtil.  Text is a sequence of tokens; NL is '\n' and
   Colon is ':'.  A message argument is None, a string or a list whose items
   are strings or lists. *)

NL == "\n"
Colon == ":"
Notice == <<"It's long so I sent it privately.">>
Dots == <<"...">>

MaxPublicLines == 2    \* the max_public_lines argument callers pass

NoneMsg == [kind |-> "none", s |-> <<>>, items |-> <<>>]
Str(s) == [kind |-> "str", s |-> s, items |-> <<>>]
List(items) == [kind |-> "list", s |-> <<>>, items |-> items]

NoTarget == [kind |-> "none", s |-> <<>>, id |-> <<>>, visibility |-> "none", name |-> <<>>]
(* a bare user string passed as the channel *)
UserTarget(s) == [kind |-> "str", s |-> s, id |-> <<>>, visibility |-> "none", name |-> <<>>]
(* Channel(id=..., visibility=..., name=...) *)
Channel(id, visibility, name) ==
  [kind |-> "channel", s |-> <<>>, id |-> id, visibility |-> visibility, name |-> name]

(* s.split(sep): the pieces between the separators, empty pieces included *)
RECURSIVE Split(_, _)
Split(s, sep) ==
  IF \A i \in 1..Len(s) : s[i] # sep
    THEN <<s>>
    ELSE LET i == CHOOSE k \in 1..Len(s) : s[k] = sep /\ \A j \in 1..(k - 1) : s[j] # sep
         IN <<SubSeq(s, 1, i - 1)>> \o Split(SubSeq(s, i + 1, Len(s)), sep)

(* _AppendToMessage(msg, response): a string adds its lines; a list adds each
   item's lines in turn. *)
RECURSIVE AppendToMessage(_, _)
AppendToMessage(lines, response) ==
  IF response.kind = "str"
    THEN lines \o Split(response.s, NL)
    ELSE IF response.items = <<>>
      THEN lines
      ELSE AppendToMessage(AppendToMessage(lines, Head(response.items)),
                           List(Tail(response.items)))

(* _MakeMessage(response) *)
MakeMessage(response) == AppendToMessage(<<>>, response)

(* only None counts as no message: '' and [] pass the test *)
MsgNotNone(msg) == msg.kind # "none"

(* Python truth of a message argument: None, '' and [] are false *)
MsgTruthy(msg) ==
  \/ msg.kind = "str" /\ msg.s # <<>>
  \/ msg.kind = "list" /\ msg.items # <<>>

(* Python truth of a channel argument: None and '' are false *)
TargetTruthy(channel) ==
  \/ channel.kind = "channel"
  \/ channel.kind = "str" /\ channel.s # <<>>

(* if not isinstance(channel, Channel):
     channel = Channel(id=channel.split(':')[0], visibility=PRIVATE, name=channel) *)
AsChannel(channel) ==
  IF channel.kind = "channel"
    THEN channel
    ELSE Channel(Split(channel.s, Colon)[1], "PRIVATE", channel.s)

(* limit_lines and channel.visibility == Channel.PUBLIC and
   isinstance(msg, list) and len(msg) > max_public_lines *)
TooLongForPublic(channel, msg, limit_lines, max_public_lines) ==
  /\ limit_lines
  /\ channel.visibility = "PUBLIC"
  /\ msg.kind = "list"
  /\ Len(msg.items) > max_public_lines

(* msg[:max_public_lines] + ['...'] *)
Truncated(msg, max_public_lines) ==
  List(SubSeq(msg.items, 1, max_public_lines) \o <<Str(Dots)>>)

SendMessage(channel, message) == [channel |-> channel, message |-> message]

(* Core.Reply: the SendMessage calls and the log records of one call, in order *)
Reply(channel, msg, default_channel, limit_lines, max_public_lines, user, log) ==
  IF ~MsgTruthy(msg)
    THEN [sent |-> <<>>, logged |-> <<>>]
    ELSE
      LET logged == IF log THEN <<"message">> ELSE <<>>
          target == IF TargetTruthy(channel) THEN channel ELSE default_channel
      IN
      IF ~TargetTruthy(target)
        THEN [sent |-> <<>>, logged |-> logged \o <<"no channel">>]
        ELSE
          LET ch == AsChannel(target) IN
          [logged |-> logged,
           sent |->
             IF TooLongForPublic(ch, msg, limit_lines, max_public_lines)
               THEN IF user # <<>>
                      THEN << SendMessage(ch, MakeMessage(Str(Notice))),
                              SendMessage(Channel(user, "PRIVATE", user), MakeMessage(msg)) >>
                      ELSE << SendMessage(ch, MakeMessage(Truncated(msg, max_public_lines))) >>
               ELSE << SendMessage(ch, MakeMessage(msg)) >>]

(* OutputUtil.Output(channel, message): self._output_fn is Core.Reply *)
Output(channel, message) ==
  Reply(channel, message, NoTarget, FALSE, 6, <<>>, FALSE)

(* OutputUtil.LogAndOutput(log_level, channel, message): logging.log, then Output *)
LogAndOutput(channel, message) ==
  LET out == Output(channel, message) IN
  [sent |-> out.sent, logged |-> <<"message">> \o out.logged]

(* The arguments the model calls Reply with. *)
Messages ==
  { NoneMsg, Str(<<>>), List(<<>>),
    Str(<<"a">>),
    Str(<<"a", NL, "b", NL, "c">>),
    List(<<Str(<<"a">>), Str(<<"b">>)>>),
    List(<<Str(<<"a">>), Str(<<"b">>), Str(<<"c">>), Str(<<"d">>)>>),
    List(<<Str(<<"a", NL, "b">>), Str(<<"c", NL, "d">>)>>),
    List(<<Str(<<"a", NL, "b">>), List(<<Str(<<"c">>), Str(<<"d", NL, "e">>)>>)>>),
    List(<<Str(<<"a">>), Str(<<"b">>), Str(<<"c", NL, "d">>)>>) }

PublicChannel == Channel(<<"#hype">>, "PUBLIC", <<"#hype">>)
PrivateChannel == Channel(<<"bob">>, "PRIVATE", <<"bob">>)

Targets ==
  { NoTarget, UserTarget(<<>>), PublicChannel, PrivateChannel,
    UserTarget(<<"bob">>), UserTarget(<<"bob", Colon, "alt">>),
    UserTarget(<<Colon, "alt">>) }

DefaultTargets == { NoTarget, PublicChannel }

OverflowUsers == { <<>>, <<"alice">> }

NoCall ==
  [op |-> "none", channel |-> NoTarget, msg |-> NoneMsg, default_channel |-> NoTarget,
   limit_lines |-> FALSE, max_public_lines |-> 0, user |-> <<>>, log |-> FALSE]

ReplyInit ==
  /\ rcall = NoCall
  /\ rsent = <<>>
  /\ rlogged = <<>>

(* one call of Core.Reply *)
ReplyCall ==
  /\ rcall = NoCall
  /\ \E channel \in Targets, msg \in Messages, default_channel \in DefaultTargets,
     limit_lines \in BOOLEAN, user \in OverflowUsers, log \in BOOLEAN :
    LET out == Reply(channel, msg, default_channel, limit_lines, MaxPublicLines, user, log) IN
    /\ rcall' = [op |-> "Reply", channel |-> channel, msg |-> msg,
                 default_channel |-> default_channel, limit_lines |-> limit_lines,
                 max_public_lines |-> MaxPublicLines, user |-> user, log |-> log]
    /\ rsent' = out.sent
    /\ rlogged' = out.logged

(* one call of OutputUtil.Output or OutputUtil.LogAndOutput *)
OutputCall ==
  /\ rcall = NoCall
  /\ \E op \in {"Output", "LogAndOutput"}, channel \in Targets, msg \in Messages :
    LET out == IF op = "Output" THEN Output(channel, msg) ELSE LogAndOutput(channel, msg) IN
    /\ rcall' = [NoCall EXCEPT !.op = op, !.channel = channel, !.msg = msg,
                               !.max_public_lines = 6]
    /\ rsent' = out.sent
    /\ rlogged' = out.logged

(* the caller goes on; Reply keeps no state between calls *)
ReplyReturn ==
  /\ rcall # NoCall
  /\ rcall' = NoCall
  /\ rsent' = <<>>
  /\ rlogged' = <<>>

-----------------------------------------------------------------------------
(* Core.ReloadData, with the task runner it schedules on. *)

(* Core.__dict__ in the order __init__ assigns it; only the attributes that
   hold collaborators are kept. *)
AttrOrder == <<"store", "cached_store", "proxy", "bank", "stocks">>
AttrNames == {AttrOrder[i] : i \in 1..Len(AttrOrder)}

(* The objects that may define ReloadData: plugins, not the store. *)
Plugins == {"proxy_obj", "bank_obj", "stocks_obj"}

IdleReload ==
  [pc |-> "idle", saw_idle |-> FALSE, ret |-> FALSE, next |-> 0, log |-> <<>>]

(* __init__: self.cached_store is a store of its own when the storage params
   name a cached_type, and the store itself otherwise. *)
ReloadInit ==
  /\ \E cached \in {"store_obj", "cached_store_obj"} :
       attrs = [a \in AttrNames |->
                  IF a = "store" THEN "store_obj"
                  ELSE IF a = "cached_store" THEN cached
                  ELSE IF a = "proxy" THEN "proxy_obj"
                  ELSE IF a = "bank" THEN "bank_obj"
                  ELSE "stocks_obj"]
  /\ reloadable \in SUBSET Plugins
  /\ runner = {}
  /\ rframe = [t \in Threads |-> IdleReload]

(* AsyncRunner.IsIdle(): nothing it was given is pending or running *)
IsIdle == runner = {}

(* AsyncRunner.RunAsync(fn): the task is queued; it runs later, on the pool *)
RunAsync(sweep, attr) == runner \cup {[sweep |-> sweep, attr |-> attr, state |-> "pending"]}

(* the idleness check left out *)
MayReloadAlways(idle) == TRUE

(* if not self.runner.IsIdle(): return False *)
MayReload(idle) == idle

(* the hasattr test left out: every attribute is scheduled *)
HasReloadDataAlways(obj) == TRUE

(* hasattr(obj, 'ReloadData') *)
HasReloadData(obj) == obj \in reloadable

(* ReloadData(): the idleness check *)
ReloadDataCheck(t) ==
  /\ rframe[t].pc = "idle"
  /\ rframe' = [rframe EXCEPT ![t] =
       IF MayReload(IsIdle)
         THEN [IdleReload EXCEPT !.pc = "rd_flush", !.saw_idle = IsIdle]
         ELSE [IdleReload EXCEPT !.pc = "rd_ret", !.saw_idle = IsIdle, !.ret = FALSE]]
  /\ UNCHANGED <<runner, attrs, reloadable>>

(* self.proxy.FlushCache() *)
ReloadDataFlush(t) ==
  /\ rframe[t].pc = "rd_flush"
  /\ rframe' = [rframe EXCEPT ![t].pc = "rd_loop", ![t].next = 1,
                              ![t].log = Append(@, "flush")]
  /\ UNCHANGED <<runner, attrs, reloadable>>

(* for obj in self.__dict__.values(): one iteration, and return True after the last *)
ReloadDataLoop(t) ==
  LET f == rframe[t] IN
  /\ f.pc = "rd_loop"
  /\ IF f.next > Len(AttrOrder)
       THEN /\ rframe' = [rframe EXCEPT ![t].pc = "rd_ret", ![t].ret = TRUE]
            /\ UNCHANGED runner
       ELSE LET attr == AttrOrder[f.next] IN
            IF HasReloadData(attrs[attr])
              THEN /\ runner' = RunAsync(t, attr)
                   /\ rframe' = [rframe EXCEPT ![t].next = @ + 1,
                                               ![t].log = Append(@, attrs[attr])]
              ELSE /\ rframe' = [rframe EXCEPT ![t].next = @ + 1]
                   /\ UNCHANGED runner
  /\ UNCHANGED <<attrs, reloadable>>

(* the caller takes the result *)
ReloadDataReturn(t) ==
  /\ rframe[t].pc = "rd_ret"
  /\ rframe' = [rframe EXCEPT ![t] = IdleReload]
  /\ UNCHANGED <<runner, attrs, reloadable>>

(* a pool worker takes a queued reload *)
TaskStart(task) ==
  /\ task \in runner
  /\ task.state = "pending"
  /\ runner' = (runner \ {task}) \cup {[task EXCEPT !.state = "running"]}
  /\ UNCHANGED <<rframe, attrs, reloadable>>

(* the reload returns or raises; either way the runner forgets the task and
   nothing reads its result *)
TaskDone(task) ==
  /\ task \in runner
  /\ task.state = "running"
  /\ runner' = runner \ {task}
  /\ UNCHANGED <<rframe, attrs, reloadable>>

-----------------------------------------------------------------------------
(* The specifications. *)

(* The variables of the parts a specification leaves alone. *)
ReplyIdle == rcall = NoCall /\ rsent = <<>> /\ rlogged = <<>>
ReloadIdle ==
  /\ attrs = [a \in AttrNames |-> "none"]
  /\ reloadable = {}
  /\ runner = {}
  /\ rframe = [t \in Threads |-> IdleReload]

TrackerOnly == UNCHANGED <<replyVars, reloadVars>>
ReplyOnly == UNCHANGED <<trackerVars, reloadVars>>
ReloadOnly == UNCHANGED <<trackerVars, replyVars>>

(* RequestTracker, called from the threads that handle chat events *)
Init == TrackerInit /\ ReplyIdle /\ ReloadIdle

Next ==
  \/ Tick /\ TrackerOnly
  \/ (\E t \in Threads, u \in Users : HasPendingRequestCall(t, u)) /\ TrackerOnly
  \/ (\E t \in Threads : HasPendingRequest(t)) /\ TrackerOnly
  \/ (\E t \in Threads : HasPendingRequestReturn(t)) /\ TrackerOnly
  \/ (\E t \in Threads, u \in Users, r \in RequestArgs :
        RequestConfirmationCall(t, u, r.details, r.action_fn, r.parse_fn)) /\ TrackerOnly
  \/ (\E t \in Threads : RequestConfirmationLocked(t)) /\ TrackerOnly
  \/ (\E t \in Threads : RequestConfirmationReply(t)) /\ TrackerOnly
  \/ (\E t \in Threads, u \in Users, m \in UserMsgs : ResolveRequestCall(t, u, m)) /\ TrackerOnly
  \/ (\E t \in Threads : ResolveRequestLocked(t)) /\ TrackerOnly
  \/ (\E t \in Threads : ResolveRequestReply(t)) /\ TrackerOnly
  \/ (\E t \in Threads : ResolveRequestAck(t)) /\ TrackerOnly
  \/ (\E t \in Threads : ResolveRequestAction(t)) /\ TrackerOnly
  \/ (\E t \in Threads : ActionCallsTracker(t)) /\ TrackerOnly

Spec == Init /\ [][Next]_vars

(* Core.Reply and OutputUtil applied to the arguments above *)
ReplySpecInit == TrackerInit /\ ReplyInit /\ ReloadIdle

ReplySpecNext ==
  \/ ReplyCall /\ ReplyOnly
  \/ OutputCall /\ ReplyOnly
  \/ ReplyReturn /\ ReplyOnly

ReplySpec == ReplySpecInit /\ [][ReplySpecNext]_vars

(* Core.ReloadData, called from several threads, and the runner's pool *)
ReloadSpecInit == TrackerInit /\ ReplyIdle /\ ReloadInit

ReloadSpecNext ==
  \/ (\E t \in Threads : ReloadDataCheck(t)) /\ ReloadOnly
  \/ (\E t \in Threads : ReloadDataFlush(t)) /\ ReloadOnly
  \/ (\E t \in Threads : ReloadDataLoop(t)) /\ ReloadOnly
  \/ (\E t \in Threads : ReloadDataReturn(t)) /\ ReloadOnly
  \/ (\E task \in runner : TaskStart(task)) /\ ReloadOnly
  \/ (\E task \in runner : TaskDone(task)) /\ ReloadOnly

ReloadSpec == ReloadSpecInit /\ [][ReloadSpecNext]_vars

-----------------------------------------------------------------------------
(* RequestTracker: the claims. *)

(* the stored request of user u is younger than the timeout *)
Live(u) ==
  /\ pending_requests[u] # NoDict
  /\ clock - dicts[pending_requests[u]].timestamp < REQUEST_TIMEOUT_SEC

(* the positions of a call that holds the lock inside self._reply_fn *)
InReply == {"rc_reply_prior", "rc_reply_confirm",
            "rr_reply_cancel", "rr_reply_late", "rr_reply_ack"}

(* the positions of a ResolveRequest call that found a pending request *)
Resolving == {"rr_reply_cancel", "rr_reply_late", "rr_reply_ack", "rr_action"}

(* C1: while a user has a stored request younger than 60 seconds, every
   RequestConfirmation for that user that takes the lock goes to the
   'Confirm prior request before submitting another.' reply and leaves the
   user's entry and the stored timestamp, action and parse predicate as they
   were, up to the end of the call; so of the calls that take the lock while
   the request is live only the first stored its request. *)
C1_RejectedWhileLive ==
  [][\A t \in Threads :
       LET u == frame[t].user
           d == pending_requests[u]
       IN
       /\ ((frame[t].pc = "rc_lock" /\ frame'[t].pc # "rc_lock" /\ Live(u))
            => (/\ frame'[t].pc = "rc_reply_prior"
                /\ frame'[t].reply = ConfirmPrior
                /\ pending_requests'[u] = d
                /\ dicts'[d] = dicts[d]))
       /\ ((frame[t].pc = "rc_reply_prior")
            => (/\ pending_requests' = pending_requests
                /\ dicts' = dicts
                /\ frame'[t].pc \in {"rc_reply_prior", "idle"}))
    ]_vars

(* A second RequestConfirmation for the user of a live request is being
   rejected while a third one for the same user waits for the lock, some
   time after the request was stored. *)
C1_Witness ==
  \E t1 \in Threads, t2 \in Threads :
    /\ frame[t1].pc = "rc_reply_prior"
    /\ frame[t2].pc = "rc_lock"
    /\ frame[t2].user = frame[t1].user
    /\ Live(frame[t1].user)
    /\ clock > dicts[pending_requests[frame[t1].user]].timestamp

(* C2: a ResolveRequest call that found a pending request for its user ends,
   however it ends, with the user's entry removed. *)
C2_ResolvedIsRemoved ==
  [][\A t \in Threads :
       (/\ (\/ frame[t].pc \in Resolving
             \/ (frame[t].pc = "rr_lock" /\ pending_requests[frame[t].user] # NoDict))
        /\ frame'[t].pc = "idle")
         => pending_requests'[frame[t].user] = NoDict
    ]_vars

(* C3: the action of one stored request is invoked at most once. *)
C3_ActionAtMostOnce ==
  \A u \in Users : invocations[u] <= 1

(* C4: a ResolveRequest call whose parse result was false ends with the entry
   discarded and the action not invoked. *)
C4_DeniedIsDiscarded ==
  [][\A t \in Threads :
       (frame[t].pc = "rr_reply_cancel" /\ frame'[t].pc # "rr_reply_cancel")
         => (/\ frame'[t].pc = "idle"
             /\ pending_requests'[frame[t].user] = NoDict
             /\ invocations[frame[t].user] = 0)
    ]_vars

(* C5: while a tracker call is inside the reply capability the lock is free. *)
C5_NoReplyUnderLock ==
  \A t \in Threads : frame[t].pc \in InReply => pending_requests_lock = NoThread

(* C13: a RequestConfirmation that takes the lock when the user's stored
   request is 60 seconds old or older by the call's own time replaces it: the
   call goes to the 'Confirm %s?' prompt and nowhere else, the caller's
   mapping is stored with the call's time as its timestamp, no action is
   invoked by the call, and nothing else is sent before the call ends; and
   for every time a call has sampled and every stored timestamp, the request
   is live for RequestConfirmation exactly when it is not too old for
   ResolveRequest. *)
C13_ExpiredIsReplacedSilently ==
  [][\A t \in Threads :
       LET f == frame[t]
           u == f.user
           d == pending_requests[u]
       IN
       /\ ((/\ f.pc = "rc_lock" /\ frame'[t].pc # "rc_lock"
             /\ d # NoDict
             /\ f.now - dicts[d].timestamp >= REQUEST_TIMEOUT_SEC)
            => (/\ frame'[t].pc = "rc_reply_confirm"
                /\ frame'[t].reply = ConfirmSummary
                /\ pending_requests'[u] = f.details
                /\ dicts'[f.details].timestamp = f.now
                /\ dicts'[f.details].action = f.action_fn
                /\ invocations'[u] = 0))
       /\ ((f.pc = "rc_reply_confirm")
            => (/\ frame'[t].pc \in {"rc_reply_confirm", "idle"}
                /\ pending_requests' = pending_requests
                /\ dicts' = dicts
                /\ invocations' = invocations))
       /\ \A x \in Dicts :
            (f.pc \in {"rc_lock", "rr_lock"} /\ dicts[x].timestamp # NoTime)
              => (PriorIsLive(f.now, dicts[x].timestamp)
                    <=> ~TookTooLong(f.now, dicts[x].timestamp))
    ]_vars

(* A RequestConfirmation has replaced a request that had reached the timeout
   and is sending its prompt. *)
C13_Witness ==
  \E t \in Threads :
    /\ frame[t].pc = "rc_reply_confirm"
    /\ frame[t].outcome = "replaced"
    /\ dicts[pending_requests[frame[t].user]].timestamp >= REQUEST_TIMEOUT_SEC

(* thread t is inside a with self._pending_requests_lock block, by its
   position: after the block's lookup and before the block's end *)
InCritical(t) ==
  \/ frame[t].pc \in InReply \cup {"rr_action"}
  \/ frame[t].nested

(* C14: no two threads are inside a critical section of the tracker at once,
   and every step that changes the map or a stored request is a step of the
   one thread that is inside its critical section or enters it by that step,
   so the critical sections take effect one after another. *)
C14_CriticalSectionsExclusive ==
  [][/\ \A t1 \in Threads, t2 \in Threads :
          (InCritical(t1) /\ InCritical(t2)) => t1 = t2
     /\ (pending_requests' # pending_requests \/ dicts' # dicts)
          => \E t \in Threads :
               /\ frame'[t] # frame[t]
               /\ InCritical(t) \/ frame[t].pc = "rc_lock"
               /\ \A o \in Threads \ {t} : ~InCritical(o) /\ frame'[o] = frame[o]
    ]_vars

(* A thread is inside ResolveRequest's critical section, in the action, while
   the other thread waits at the lock with a RequestConfirmation for the same
   user. *)
C14_Witness ==
  \E t1 \in Threads, t2 \in Threads :
    /\ frame[t1].pc = "rr_action"
    /\ frame[t2].pc = "rc_lock"
    /\ frame[t2].user = frame[t1].user

(* C15: in a confirmed resolution the action starts only from the
   acknowledgement reply, which sent request_details['action_text'] when the
   mapping carries one and 'Confirmation accepted.' otherwise; the entry is
   untouched by the acknowledgement step and is still the user's entry while
   the action runs; the entry goes only in the step that ends the call after
   the action returned; and a call whose action fails has sent the
   acknowledgement before. *)
C15_AckThenActionThenRemoval ==
  [][\A t \in Threads :
       LET f == frame[t]
           u == f.user
       IN
       /\ ((frame'[t].pc = "rr_action" /\ f.pc \notin {"rr_action", "hp_ret"})
            => (/\ f.pc = "rr_reply_ack"
                /\ pending_requests'[u] = pending_requests[u]))
       /\ ((f.pc \in {"rr_reply_ack", "rr_action"})
            => (/\ pending_requests[u] = f.details
                /\ f.details # NoDict
                /\ f.reply = IF HasActionText(f.details) THEN ActionText ELSE Accepted))
       /\ ((f.pc \in {"rr_reply_ack", "rr_action"} /\ pending_requests'[u] # pending_requests[u])
            => (/\ f.pc = "rr_action"
                /\ frame'[t].pc = "idle"
                /\ pending_requests'[u] = NoDict))
    ]_vars

(* The action of a request whose mapping carries an action_text is running:
   the acknowledgement has been sent and the entry is in the map. *)
C15_Witness ==
  \E t \in Threads :
    /\ frame[t].pc = "rr_action"
    /\ frame[t].reply = ActionText
    /\ pending_requests[frame[t].user] = frame[t].details

(* C16: a step in which time passes leaves the map and the stored requests as
   they were; HasPendingRequest answers true exactly when the user has an
   entry, whatever its age, and neither it nor its return changes the map or
   a stored request; and a user's entry changes only in a step of a
   RequestConfirmation or ResolveRequest call for that user. *)
C16_ExpiryIsLazy ==
  [][/\ (clock' # clock)
          => (pending_requests' = pending_requests /\ dicts' = dicts)
     /\ \A t \in Threads :
          (frame[t].pc \in {"hp_lock", "hp_ret"} /\ frame'[t] # frame[t])
            => (/\ pending_requests' = pending_requests
                /\ dicts' = dicts
                /\ (frame[t].pc = "hp_lock")
                     => (/\ frame'[t].pc = "hp_ret"
                         /\ frame'[t].outcome =
                               IF pending_requests[frame[t].user] # NoDict
                                 THEN "true" ELSE "false"))
     /\ \A u \in Users :
          (pending_requests'[u] # pending_requests[u])
            => \E t \in Threads :
                 /\ frame[t].user = u
                 /\ frame'[t] # frame[t]
                 /\ frame[t].pc \in {"rc_lock"} \cup Resolving
    ]_vars

(* HasPendingRequest has answered true for a request that is 60 seconds old
   or older. *)
C16_Witness ==
  \E t \in Threads :
    /\ frame[t].pc = "hp_ret"
    /\ frame[t].outcome = "true"
    /\ pending_requests[frame[t].user] # NoDict
    /\ clock - dicts[pending_requests[frame[t].user]].timestamp >= REQUEST_TIMEOUT_SEC

(* the positions of a RequestConfirmation or ResolveRequest call *)
InRequestOrResolve == {"rc_lock", "rc_reply_prior", "rc_reply_confirm", "rr_lock"} \cup Resolving

(* C17: a step of a RequestConfirmation or ResolveRequest call for one user
   leaves every other user's entry in the map, and the timestamp, action and
   parse predicate stored for that other user, as they were. *)
C17_OtherUsersUntouched ==
  [][\A t \in Threads, v \in Users :
       (/\ frame[t].pc \in InRequestOrResolve
        /\ frame'[t] # frame[t]
        /\ v # frame[t].user)
         => (/\ pending_requests'[v] = pending_requests[v]
             /\ (pending_requests[v] # NoDict)
                  => dicts'[pending_requests[v]] = dicts[pending_requests[v]])
    ]_vars

(* the positions of a call that waits to acquire the lock *)
AtLock == {"hp_lock", "rc_lock", "rr_lock"}

(* C18: no tracker call blocks forever on the lock: whenever a call waits at
   the lock, the lock is free or its holder is at a position from which it
   goes on to release it, and so is not itself waiting at the lock. *)
C18_NoCallBlocksForever ==
  \A t \in Threads :
    (frame[t].pc \in AtLock)
      => (\/ pending_requests_lock = NoThread
          \/ frame[pending_requests_lock].pc \notin AtLock)

(* C19: a ResolveRequest call that goes on to acknowledge and invoke the
   action found a request whose timestamp is not later than the time the call
   sampled: the elapsed time it compared with the timeout is not negative, and
   the request was not stored after the call began. *)
C19_AcceptsOnlyEarlierRequests ==
  [][\A t \in Threads :
       (frame[t].pc = "rr_lock" /\ frame'[t].pc = "rr_reply_ack")
         => frame[t].now >= dicts[pending_requests[frame[t].user]].timestamp
    ]_vars

(* C20: the lock is held only by a thread that is inside a with block of a
   tracker call; a thread that is outside every tracker call, or has returned
   from HasPendingRequest, or waits to enter, does not hold it; every step
   by which a call ends, by return or by an exception, leaves the lock not
   held by that thread; and with no call in progress the lock is free. *)
C20_LockFreeOutsideCalls ==
  [][/\ \A t \in Threads :
          /\ (pending_requests_lock = t) => InCritical(t)
          /\ (frame[t].pc # "idle" /\ frame'[t].pc = "idle")
               => pending_requests_lock' # t
     /\ (\A t \in Threads : frame[t].pc = "idle")
          => pending_requests_lock = NoThread
    ]_vars

(* No call is in progress and the lock is free after a ResolveRequest whose
   action was invoked and raised: the entry is still in the map. *)
C20_Witness ==
  /\ \A t \in Threads : frame[t].pc = "idle"
  /\ pending_requests_lock = NoThread
  /\ \E u \in Users : pending_requests[u] # NoDict /\ invocations[u] >= 1

-----------------------------------------------------------------------------
(* Core.ReloadData: the claims. *)

Count(seq, x) == Cardinality({i \in DOMAIN seq : seq[i] = x})

Registered == {attrs[a] : a \in AttrNames}

(* C6: the reloads in flight on the runner were all scheduled by one
   ReloadData call. *)
C6_OneSweepInFlight ==
  \A x \in runner, y \in runner : x.sweep = y.sweep

(* C7: a ReloadData call that found the runner not idle returns False and has
   flushed nothing and scheduled nothing. *)
C7_BusyReloadHasNoEffect ==
  \A t \in Threads :
    (rframe[t].pc # "idle" /\ ~rframe[t].saw_idle)
      => (/\ rframe[t].pc = "rd_ret"
          /\ rframe[t].ret = FALSE
          /\ rframe[t].log = <<>>)

(* A call has returned False while reloads are in flight. *)
C7_Witness ==
  \E t \in Threads :
    /\ rframe[t].pc = "rd_ret"
    /\ ~rframe[t].saw_idle
    /\ runner # {}

(* C8: a ReloadData call that found the runner idle flushes the proxy cache
   before it schedules anything, and returns True having flushed once and
   having scheduled each registered object that has ReloadData exactly once
   and no other object. *)
C8_IdleReloadSchedulesEachOnce ==
  \A t \in Threads :
    /\ (rframe[t].log # <<>> => rframe[t].log[1] = "flush")
    /\ (rframe[t].pc = "rd_ret" /\ rframe[t].saw_idle)
         => (/\ rframe[t].ret = TRUE
             /\ Count(rframe[t].log, "flush") = 1
             /\ \A o \in Registered \cup Plugins :
                  Count(rframe[t].log, o) =
                    IF o \in Registered /\ o \in reloadable THEN 1 ELSE 0)

(* A call has returned True while a reload it scheduled has not started; some
   plugin has ReloadData and some has not; cached_store is the store. *)
C8_Witness ==
  \E t \in Threads :
    /\ rframe[t].pc = "rd_ret"
    /\ rframe[t].ret = TRUE
    /\ \E task \in runner : task.sweep = t /\ task.state = "pending"
    /\ reloadable # {}
    /\ Plugins \ reloadable # {}
    /\ attrs["cached_store"] = attrs["store"]

-----------------------------------------------------------------------------
(* Core.Reply: the claims. *)

(* the destination Reply resolves for the last call *)
Resolved == IF TargetTruthy(rcall.channel) THEN rcall.channel ELSE rcall.default_channel

(* the last call was a Reply with a message and a destination *)
Replied == rcall.op = "Reply" /\ MsgTruthy(rcall.msg) /\ TargetTruthy(Resolved)

(* the truncation condition on the flattened line count *)
OverLimit ==
  /\ rcall.limit_lines
  /\ AsChannel(Resolved).visibility = "PUBLIC"
  /\ Len(MakeMessage(rcall.msg)) > rcall.max_public_lines

(* C9: Reply truncates exactly when limit_lines is set, the destination is
   PUBLIC and the message has more than max_public_lines flattened lines:
   without an overflow user the destination then gets the first
   max_public_lines lines and a '...' line, and when the condition does not
   hold it gets the whole flattened message. *)
C9_TruncatesOnLineCount ==
  Replied =>
    LET ch == AsChannel(Resolved)
        lines == MakeMessage(rcall.msg)
    IN
    /\ (OverLimit /\ rcall.user = <<>>)
         => rsent = << SendMessage(ch, SubSeq(lines, 1, rcall.max_public_lines) \o <<Dots>>) >>
    /\ ~OverLimit => rsent = << SendMessage(ch, lines) >>

(* C10: when the truncation condition holds and an overflow user is given,
   Reply sends the notice to the destination and then the whole message to
   the user's PRIVATE channel, and nothing else. *)
C10_OverflowGoesPrivate ==
  (Replied /\ OverLimit /\ rcall.user # <<>>)
    => rsent = << SendMessage(AsChannel(Resolved), <<Notice>>),
                  SendMessage(Channel(rcall.user, "PRIVATE", rcall.user),
                              MakeMessage(rcall.msg)) >>

(* the message arguments that are empty or absent: None, '' and [] *)
EmptyMessages == { NoneMsg, Str(<<>>), List(<<>>) }

(* C11: a call with an empty or absent message sends nothing, on Core.Reply
   (whatever its flags), OutputUtil.Output and OutputUtil.LogAndOutput; Reply
   and Output emit no log record for it, and LogAndOutput emits exactly the
   one record of its own logging.log call. *)
C11_EmptyMessageSendsNothing ==
  (rcall.op # "none" /\ rcall.msg \in EmptyMessages)
    => (/\ rsent = <<>>
        /\ rlogged = IF rcall.op = "LogAndOutput" THEN <<"message">> ELSE <<>>)

(* Reply was called with log=True, a destination and the empty string. *)
C11_Witness ==
  /\ rcall.op = "Reply"
  /\ rcall.log
  /\ rcall.msg = Str(<<>>)
  /\ TargetTruthy(rcall.channel)
  /\ rsent = <<>>

(* C11, with no entry point excepted: a call with an empty or absent message
   sends nothing and emits no log record. *)
C11_EmptyMessageIsNoOp ==
  (rcall.op # "none" /\ rcall.msg \in EmptyMessages)
    => (rsent = <<>> /\ rlogged = <<>>)

(* the part of a string before its first ':', the whole string without one *)
BeforeFirstColon(s) ==
  IF \E i \in 1..Len(s) : s[i] = Colon
    THEN SubSeq(s, 1, (CHOOSE k \in 1..Len(s) :
                         s[k] = Colon /\ \A j \in 1..(k - 1) : s[j] # Colon) - 1)
    ELSE s

(* C12: a Reply with a message goes to the destination if there is one and to
   the default destination otherwise; without either nothing is sent and the
   only records are the message's own (when log is set) and then the
   no-channel one; a bare string becomes the PRIVATE channel whose id is the
   part before the first ':' and whose name is the whole string; and every
   channel handed to SendMessage has a non-empty id. *)
C12_DestinationResolved ==
  (rcall.op = "Reply" /\ MsgTruthy(rcall.msg)) =>
    /\ (~TargetTruthy(Resolved))
          => (/\ rsent = <<>>
              /\ rlogged = (IF rcall.log THEN <<"message">> ELSE <<>>) \o <<"no channel">>)
    /\ TargetTruthy(Resolved)
          => (/\ rsent # <<>>
              /\ rsent[1].channel =
                    IF Resolved.kind = "str"
                      THEN Channel(BeforeFirstColon(Resolved.s), "PRIVATE", Resolved.s)
                      ELSE Resolved)
    /\ \A i \in DOMAIN rsent : rsent[i].channel.id # <<>>

====
